---- MODULE Spec2Model ----
(***************************************************************************)
(* Raw Image Viewer: the pixel-format codec (fill_rgba), the component     *)
(* order resolver (valid_order, rgba_order, rgb_order), the three          *)
(* container decoders (Image::linear, Image::indexed, Image::tiled) and    *)
(* the ProcessImage handler that runs them.                                *)
(*                                                                         *)
(* Conventions.  A Rust String is a tuple of one-character strings.  A     *)
(* byte buffer (Vec<u8>, &[u8]) is a record [len, at] whose `at` is a      *)
(* function on 0..len-1, so that the source's zero-based index arithmetic  *)
(* is kept as written.  Result<T, String> is a record [ok, val, err,       *)
(* panic]; Option<T> is a record [some, val].  usize arithmetic is exact:  *)
(* the dimensions are bounded far below the width of usize.                *)
(***************************************************************************)
EXTENDS Integers, Sequences, FiniteSets, TLC

VARIABLES
    app,      \* struct App: the fields of the GUI state
    ops,      \* the file operations of the last decode, in order
    crashed,  \* TRUE once a handler has panicked
    last,     \* the name of the last operation that ran ("none" at start)
    arg,      \* the input of a pure function applied on its own (besides app)
    ret,      \* its result
    handled   \* TRUE once a ProcessImage message has been handled

vars == <<app, ops, crashed, last, arg, ret, handled>>

----------------------------------------------------------------------------
(* Result and Option *)

Ok(v) == [ok |-> TRUE, val |-> v, err |-> "", panic |-> FALSE]

Err(e) == [ok |-> FALSE, val |-> <<>>, err |-> e, panic |-> FALSE]

Panic(e) == [ok |-> FALSE, val |-> <<>>, err |-> e, panic |-> TRUE]

Some(v) == [some |-> TRUE, val |-> v]

None == [some |-> FALSE, val |-> <<>>]

\* the None of an Option<String> or Option<PathBuf>
NoneStr == [some |-> FALSE, val |-> ""]

----------------------------------------------------------------------------
(* Rust's `let v = e;`: e is evaluated once, before the rest of the block, *)
(* and the rest sees its value.                                            *)

let(e, rest(_)) == CHOOSE r \in {rest(v) : v \in {e}} : TRUE

let2(e1, e2, rest(_, _)) ==
    CHOOSE r \in {rest(v1, v2) : v1 \in {e1}, v2 \in {e2}} : TRUE

----------------------------------------------------------------------------
(* Strings *)

UpperChars == <<"A", "B", "C", "D", "E", "F", "G", "H", "I", "J", "K", "L", "M",
                "N", "O", "P", "Q", "R", "S", "T", "U", "V", "W", "X", "Y", "Z">>

LowerChars == <<"a", "b", "c", "d", "e", "f", "g", "h", "i", "j", "k", "l", "m",
                "n", "o", "p", "q", "r", "s", "t", "u", "v", "w", "x", "y", "z">>

\* str::to_ascii_lowercase: 'A'..'Z' are mapped to 'a'..'z', all else is kept.
to_ascii_lowercase(s) ==
    [k \in 1..Len(s) |->
        IF \E i \in 1..26 : UpperChars[i] = s[k]
        THEN LowerChars[CHOOSE i \in 1..26 : UpperChars[i] = s[k]]
        ELSE s[k]]

\* slice::contains
contains(s, chr) == \E k \in 1..Len(s) : s[k] = chr

\* Iterator::position: the zero-based index of the first match.
position(s, chr) ==
    IF contains(s, chr)
    THEN Some(CHOOSE k \in 0..(Len(s) - 1) :
                 /\ s[k + 1] = chr
                 /\ \A j \in 0..(k - 1) : s[j + 1] # chr)
    ELSE None

DigitChars == <<"0", "1", "2", "3", "4", "5", "6", "7", "8", "9">>

DigitValue(c) == (CHOOSE i \in 1..10 : DigitChars[i] = c) - 1

RECURSIVE DigitsValue(_)
DigitsValue(s) ==
    IF Len(s) = 0 THEN 0
    ELSE 10 * DigitsValue(SubSeq(s, 1, Len(s) - 1)) + DigitValue(s[Len(s)])

\* str::parse::<usize>: an empty string and any character that is not an
\* ASCII digit are errors.  (The texts of the model are too short to
\* overflow usize.)
parse_usize(s) ==
    IF Len(s) = 0 \/ \E k \in 1..Len(s) : \A i \in 1..10 : DigitChars[i] # s[k]
    THEN Err("ParseIntError")
    ELSE Ok(DigitsValue(s))

\* integer to_string, for the default texts
RECURSIVE to_string(_)
to_string(n) ==
    IF n < 10 THEN <<DigitChars[n + 1]>>
    ELSE to_string(n \div 10) \o <<DigitChars[(n % 10) + 1]>>

----------------------------------------------------------------------------
(* Bit operations on unsigned integers *)

\* a & b, bit by bit from the least significant
BitAndOf[a \in Nat, b \in Nat] ==
    IF a = 0 \/ b = 0 THEN 0
    ELSE (a % 2) * (b % 2) + 2 * BitAndOf[a \div 2, b \div 2]

BitAnd(a, b) == BitAndOf[a, b]

RECURSIVE Pow2(_)
Pow2(n) == IF n = 0 THEN 1 ELSE 2 * Pow2(n - 1)

Shr(a, n) == a \div Pow2(n)

\* u8 arithmetic keeps its width
U8Mul(a, b) == (a * b) % 256

U8Add(a, b) == (a + b) % 256

\* `x as u8` of a u16
AsU8(x) == x % 256

u16_from_le_bytes(c0, c1) == c0 + 256 * c1

u16_from_be_bytes(c0, c1) == 256 * c0 + c1

----------------------------------------------------------------------------
(* pixel_format.rs *)

PixelFormat == {"RGBA8888", "RGB888", "RGBA4444", "RGBA5551", "RGB565",
                "R8", "G8", "B8", "L8"}

Endian == {"LE", "BE"}

is_orderable(self) == self \in {"RGBA8888", "RGB888", "RGBA4444", "RGBA5551", "RGB565"}

use_alpha(self) == self \in {"RGBA8888", "RGBA4444", "RGBA5551"}

bytes_per_pixel(self) ==
    CASE self = "RGBA8888" -> 4
      [] self = "RGB888" -> 3
      [] self \in {"RGBA4444", "RGBA5551", "RGB565"} -> 2
      [] self \in {"R8", "G8", "B8", "L8"} -> 1

use_endian(self) == bytes_per_pixel(self) = 2

default_order_AlwaysRGB(self) == IF is_orderable(self) THEN <<"R", "G", "B">> ELSE <<>>

default_order(self) ==
    CASE self \in {"RGBA8888", "RGBA4444", "RGBA5551"} -> <<"R", "G", "B", "A">>
      [] self \in {"RGB888", "RGB565"} -> <<"R", "G", "B">>
      [] OTHER -> <<>>

valid_order_NoLength(self, order) ==
    LET o == to_ascii_lowercase(order) IN
    CASE self \in {"RGBA8888", "RGBA4444", "RGBA5551"} ->
            IF \A chr \in {"r", "g", "b", "a"} : contains(o, chr)
            THEN Some(o) ELSE None
      [] self \in {"RGB888", "RGB565"} ->
            IF \A chr \in {"r", "g", "b"} : contains(o, chr)
            THEN Some(o) ELSE None
      [] OTHER -> Some(<<>>)

valid_order(self, order) ==
    LET o == to_ascii_lowercase(order) IN
    CASE self \in {"RGBA8888", "RGBA4444", "RGBA5551"} ->
            IF Len(o) = 4 /\ \A chr \in {"r", "g", "b", "a"} : contains(o, chr)
            THEN Some(o) ELSE None
      [] self \in {"RGB888", "RGB565"} ->
            IF Len(o) = 3 /\ \A chr \in {"r", "g", "b"} : contains(o, chr)
            THEN Some(o) ELSE None
      [] OTHER -> Some(<<>>)

rgba_order(order) ==
    LET r == position(order, "r")
        g == position(order, "g")
        b == position(order, "b")
        a == position(order, "a")
    IN  IF r.some /\ g.some /\ b.some /\ a.some
        THEN Ok(<<r.val, g.val, b.val, a.val>>)
        ELSE Err("invalid rgba order")

rgb_order(order) ==
    LET r == position(order, "r")
        g == position(order, "g")
        b == position(order, "b")
    IN  IF r.some /\ g.some /\ b.some
        THEN Ok(<<r.val, g.val, b.val>>)
        ELSE Err("invalid rgb order")

----------------------------------------------------------------------------
(* Byte buffers *)

\* vec![0; n]
zeros(n) == [len |-> n, at |-> [i \in 0..(n - 1) |-> 0]]

\* slice::chunks_exact: the whole chunks of `size` bytes; a remainder is dropped.
chunks_exact(buf, size) == [n |-> buf.len \div size, size |-> size, buf |-> buf]

\* the i-th chunk, indexed from 0 like the slice it is
ChunkAt(chunks, i) ==
    [j \in 0..(chunks.size - 1) |-> chunks.buf.at[i * chunks.size + j]]

\* buf[from .. from + n]
slice(buf, from, n) == [len |-> n, at |-> [i \in 0..(n - 1) |-> buf.at[from + i]]]

----------------------------------------------------------------------------
(* image.rs: fill_rgba.  Each match arm's loop body is an operator from    *)
(* one chunk (and the four bytes the pixel held before) to the four bytes  *)
(* the pixel holds after; `idx` is the tuple rgba_order / rgb_order gave.  *)

\* the 16-bit word of a 2-byte chunk
pixel_word_AlwaysLE(a, chunk) == u16_from_le_bytes(chunk[0], chunk[1])

pixel_word(a, chunk) ==
    IF a.pixel_format.endian = "LE"
    THEN u16_from_le_bytes(chunk[0], chunk[1])
    ELSE u16_from_be_bytes(chunk[0], chunk[1])

\* rgba[i * 4 ..] = color[r_i], color[g_i], color[b_i], a
store_rgba(a, idx, color) ==
    <<color[idx[1] + 1], color[idx[2] + 1], color[idx[3] + 1],
      IF a.ignore_alpha THEN 255 ELSE color[idx[4] + 1]>>

store_rgb(idx, color) ==
    <<color[idx[1] + 1], color[idx[2] + 1], color[idx[3] + 1], 255>>

arm_RGBA8888_KeepAlpha(a, idx, chunk, old) ==
    <<chunk[idx[1]], chunk[idx[2]], chunk[idx[3]], chunk[idx[4]]>>

arm_RGBA8888(a, idx, chunk, old) ==
    store_rgba(a, idx, <<chunk[0], chunk[1], chunk[2], chunk[3]>>)

arm_RGB888(a, idx, chunk, old) ==
    store_rgb(idx, <<chunk[0], chunk[1], chunk[2]>>)

color_RGBA4444_Times16(pixel) ==
    <<U8Mul(AsU8(BitAnd(pixel, \hF)), 16),
      U8Mul(AsU8(Shr(BitAnd(pixel, \hF0), 4)), 16),
      U8Mul(AsU8(Shr(BitAnd(pixel, \hF00), 8)), 16),
      U8Mul(AsU8(Shr(BitAnd(pixel, \hF000), 12)), 16)>>

color_RGBA4444(pixel) ==
    <<U8Mul(AsU8(BitAnd(pixel, \hF)), 17),
      U8Mul(AsU8(Shr(BitAnd(pixel, \hF0), 4)), 17),
      U8Mul(AsU8(Shr(BitAnd(pixel, \hF00), 8)), 17),
      U8Mul(AsU8(Shr(BitAnd(pixel, \hF000), 12)), 17)>>

arm_RGBA4444(a, idx, chunk, old) ==
    let(pixel_word(a, chunk), LAMBDA pixel :
    let(color_RGBA4444(pixel), LAMBDA color : store_rgba(a, idx, color)))

color_RGBA5551_NoRounding(pixel) ==
    <<U8Mul(AsU8(BitAnd(pixel, \h1F)), 8),
      U8Mul(AsU8(Shr(BitAnd(pixel, \h3E0), 5)), 8),
      U8Mul(AsU8(Shr(BitAnd(pixel, \h7C00), 10)), 8),
      U8Mul(AsU8(Shr(BitAnd(pixel, \h8000), 15)), 255)>>

color_RGBA5551(pixel) ==
    let(<<U8Mul(AsU8(BitAnd(pixel, \h1F)), 8),
          U8Mul(AsU8(Shr(BitAnd(pixel, \h3E0), 5)), 8),
          U8Mul(AsU8(Shr(BitAnd(pixel, \h7C00), 10)), 8),
          U8Mul(AsU8(Shr(BitAnd(pixel, \h8000), 15)), 255)>>, LAMBDA color :
    <<U8Add(color[1], color[1] \div 32),
      U8Add(color[2], color[2] \div 32),
      U8Add(color[3], color[3] \div 32),
      color[4]>>)

arm_RGBA5551(a, idx, chunk, old) ==
    let(pixel_word(a, chunk), LAMBDA pixel :
    let(color_RGBA5551(pixel), LAMBDA color : store_rgba(a, idx, color)))

color_RGB565_GreenTimesEight(pixel) ==
    let(<<U8Mul(AsU8(BitAnd(pixel, \h1F)), 8),
          U8Mul(AsU8(Shr(BitAnd(pixel, \h7E0), 5)), 8),
          U8Mul(AsU8(Shr(BitAnd(pixel, \hF800), 11)), 8)>>, LAMBDA color :
    <<U8Add(color[1], color[1] \div 32),
      U8Add(color[2], color[2] \div 64),
      U8Add(color[3], color[3] \div 32)>>)

color_RGB565_GreenFiveBits(pixel) ==
    let(<<U8Mul(AsU8(BitAnd(pixel, \h1F)), 8),
          U8Mul(AsU8(Shr(BitAnd(pixel, \h3E0), 5)), 8),
          U8Mul(AsU8(Shr(BitAnd(pixel, \hF800), 11)), 8)>>, LAMBDA color :
    <<U8Add(color[1], color[1] \div 32),
      U8Add(color[2], color[2] \div 32),
      U8Add(color[3], color[3] \div 32)>>)

color_RGB565(pixel) ==
    let(<<U8Mul(AsU8(BitAnd(pixel, \h1F)), 8),
          U8Mul(AsU8(Shr(BitAnd(pixel, \h7E0), 5)), 4),
          U8Mul(AsU8(Shr(BitAnd(pixel, \hF800), 11)), 8)>>, LAMBDA color :
    <<U8Add(color[1], color[1] \div 32),
      U8Add(color[2], color[2] \div 64),
      U8Add(color[3], color[3] \div 32)>>)

arm_RGB565(a, idx, chunk, old) ==
    let(pixel_word(a, chunk), LAMBDA pixel :
    let(color_RGB565(pixel), LAMBDA color : store_rgb(idx, color)))

\* R8, G8 and B8 write one colour channel and alpha; the other two channels
\* keep what the buffer held.
arm_R8(a, idx, chunk, old) == <<chunk[0], old[2], old[3], 255>>

arm_G8(a, idx, chunk, old) == <<old[1], chunk[0], old[3], 255>>

arm_B8(a, idx, chunk, old) == <<old[1], old[2], chunk[0], 255>>

arm_L8(a, idx, chunk, old) == <<chunk[0], chunk[0], chunk[0], 255>>

\* the loop body of the arm that `match pixel_format` selects
arm(a, idx, chunk, old) ==
    LET pixel_format == a.pixel_format.selected IN
    CASE pixel_format = "RGBA8888" -> arm_RGBA8888(a, idx, chunk, old)
      [] pixel_format = "RGB888" -> arm_RGB888(a, idx, chunk, old)
      [] pixel_format = "RGBA4444" -> arm_RGBA4444(a, idx, chunk, old)
      [] pixel_format = "RGBA5551" -> arm_RGBA5551(a, idx, chunk, old)
      [] pixel_format = "RGB565" -> arm_RGB565(a, idx, chunk, old)
      [] pixel_format = "R8" -> arm_R8(a, idx, chunk, old)
      [] pixel_format = "G8" -> arm_G8(a, idx, chunk, old)
      [] pixel_format = "B8" -> arm_B8(a, idx, chunk, old)
      [] pixel_format = "L8" -> arm_L8(a, idx, chunk, old)

\* `for (i, chunk) in chunks.enumerate()`: pixel i of rgba is rewritten from
\* chunk i; the pixels past the last chunk keep what they held.  (Every
\* caller sizes rgba to four bytes per chunk or more.)
fill_loop(a, idx, rgba, chunks) ==
    let([i \in 0..(chunks.n - 1) |->
            let(ChunkAt(chunks, i), LAMBDA chunk :
                arm(a, idx, chunk,
                    <<rgba.at[i * 4], rgba.at[i * 4 + 1],
                      rgba.at[i * 4 + 2], rgba.at[i * 4 + 3]>>))],
        LAMBDA written :
        [len |-> rgba.len,
         at |-> [k \in 0..(rgba.len - 1) |->
                    IF k \div 4 < chunks.n THEN written[k \div 4][(k % 4) + 1]
                    ELSE rgba.at[k]]])

\* The head of fill_rgba: the order string is validated, then the arm of
\* the format resolves it to the position of each channel.  The formats
\* without an order use no positions.
order_indices(a) ==
    let(valid_order(a.pixel_format.selected, a.pixel_format.component_order),
        LAMBDA order :
        IF ~order.some THEN Err("invalid component order")
        ELSE IF use_alpha(a.pixel_format.selected) THEN rgba_order(order.val)
        ELSE IF is_orderable(a.pixel_format.selected) THEN rgb_order(order.val)
        ELSE Ok(<<>>))

\* fill_rgba: Ok(the rgba buffer after the call) or the error.
fill_rgba(a, rgba_in, chunks_in) ==
    let2(rgba_in, chunks_in, LAMBDA rgba, chunks :
    let(order_indices(a), LAMBDA idx :
        IF ~idx.ok THEN Err(idx.err)
        ELSE Ok(fill_loop(a, idx.val, rgba, chunks))))

----------------------------------------------------------------------------
(* The file system the viewer reads.  A file is a length and a rule giving *)
(* the byte at each position, so that a file of a thousand bytes is not a  *)
(* thousand-element value of the state.                                    *)

\* The paths a file dialog can return here.  "missing.bin" names no file.
Paths == {"missing.bin", "tiles.bin", "indexed.bin", "big.bin"}

FileExists(path) == path # "missing.bin"

\* tiles.bin:   16 bytes, byte i = i div 4 (four 2x2 one-byte tiles, tile k
\*              filled with k).
\* indexed.bin: 8 index bytes holding the 4-bit indices 0..15 in order (low
\*              nibble first), then the 16 table bytes 0..15.
\* big.bin:     1100 bytes, byte i = (7 i + 3) mod 256: any 256 consecutive
\*              bytes are pairwise distinct.
FileLen(path) ==
    CASE path = "tiles.bin" -> 16
      [] path = "indexed.bin" -> 24
      [] path = "big.bin" -> 1100

FileByte(path, i) ==
    CASE path = "tiles.bin" -> i \div 4
      [] path = "indexed.bin" -> IF i < 8 THEN (2 * i) + 16 * (2 * i + 1) ELSE i - 8
      [] path = "big.bin" -> (7 * i + 3) % 256

\* File::open
File_open(path) == IF FileExists(path) THEN Ok(path) ELSE Err("No such file or directory (os error 2)")

\* file.seek(Start(pos)) followed by file.read_exact(&mut buf) with buf.len()
\* = n: the n bytes from pos, or an error when the file ends before them.
\* An empty buffer is filled by reading nothing, wherever pos is.
read_exact_Partial(file, pos, n) ==
    LET got == IF FileLen(file) > pos THEN FileLen(file) - pos ELSE 0 IN
    Ok([len |-> n,
        at |-> [i \in 0..(n - 1) |-> IF i < got THEN FileByte(file, pos + i) ELSE 0]])

read_exact(file, pos, n) ==
    IF n = 0 \/ pos + n <= FileLen(file)
    THEN Ok([len |-> n, at |-> [i \in 0..(n - 1) |-> FileByte(file, pos + i)]])
    ELSE Err("unexpected end of file")

\* the entries of the log of file operations
OpOpen == <<"open", 0>>

OpSeek(pos) == <<"seek", pos>>

OpRead(n) == <<"read", n>>

\* Handle::from_rgba
new_handle(width, height, rgba) == [width |-> width, height |-> height, rgba |-> rgba.at]

\* What a decoder returns: its Result and the file operations it performed.
Outcome(res, log) == [res |-> res, ops |-> log]

----------------------------------------------------------------------------
(* image.rs: Image::linear *)

linear(a, file, w, h, offset) ==
    LET pixel_format == a.pixel_format.selected
        pixel_count == w * h
        bpp == bytes_per_pixel(pixel_format)
        log == <<OpSeek(offset), OpRead(pixel_count * bpp)>>
    IN  let(read_exact(file, offset, pixel_count * bpp), LAMBDA pixel_data :
        IF ~pixel_data.ok
        THEN Outcome(Err("failed to fill pixel data buffer. unexpected end of file"), log)
        ELSE let(fill_rgba(a, zeros(w * h * 4), chunks_exact(pixel_data.val, bpp)),
                 LAMBDA rgba :
                 IF ~rgba.ok THEN Outcome(Err(rgba.err), log)
                 ELSE Outcome(Ok(new_handle(w, h, rgba.val)), log)))

----------------------------------------------------------------------------
(* image_format.rs *)

ImageFormat == {"Linear", "Indexed", "Tiled"}

Bpp == {"Bpp4", "Bpp8"}

color_count(bpp) == IF bpp = "Bpp4" THEN 16 ELSE 256

\* PaletteInfo::default and TileInfo::default
PaletteInfo_default == [offset |-> to_string(0), bpp |-> "Bpp8"]

TileInfo_default == [width |-> to_string(2), height |-> to_string(2)]

----------------------------------------------------------------------------
(* image.rs: Image::indexed *)

\* How many index bytes Image::indexed reads for w * h pixels.
index_bytes(bpp, w, h) == IF bpp = "Bpp4" THEN (w * h) \div 2 ELSE w * h

\* The expansion loops: the rgba buffer after `for (i, pixels) in
\* pixel_data.into_iter().enumerate()`.  With 4-bit indices byte i writes
\* pixels 2i (low nibble) and 2i+1 (high nibble); with 8-bit indices byte i
\* writes pixel i.  A pixel no byte writes keeps the 0 of vec![0; w * h * 4].
indexed_expand(bpp, pixel_data, palette_rgba, w, h) ==
    [len |-> w * h * 4,
     at |-> [k \in 0..(w * h * 4 - 1) |->
        LET p == k \div 4 IN
        IF bpp = "Bpp4"
        THEN LET i == p \div 2 IN
             IF i < pixel_data.len
             THEN LET pixels == pixel_data.at[i]
                      src1 == BitAnd(pixels, \hF) * 4
                      src2 == Shr(BitAnd(pixels, \hF0), 4) * 4
                  IN  IF p = i * 2
                      THEN palette_rgba.at[src1 + (k % 4)]
                      ELSE palette_rgba.at[src2 + (k % 4)]
             ELSE 0
        ELSE IF p < pixel_data.len
             THEN palette_rgba.at[pixel_data.at[p] * 4 + (k % 4)]
             ELSE 0]]

indexed(a, file, w, h, offset) ==
    let(parse_usize(a.palette.offset), LAMBDA palette_offset :
    IF ~palette_offset.ok THEN Outcome(Err("palette offset is empty"), <<>>)
    ELSE
    LET palette == a.palette
        pixel_format == a.pixel_format.selected
        colors == color_count(palette.bpp)
        bytes_per_color == bytes_per_pixel(pixel_format)
        n == index_bytes(palette.bpp, w, h)
        log1 == <<OpSeek(palette_offset.val), OpRead(colors * bytes_per_color)>>
        log2 == log1 \o <<OpSeek(offset), OpRead(n)>>
    IN  let(read_exact(file, palette_offset.val, colors * bytes_per_color),
            LAMBDA palette_data :
        IF ~palette_data.ok
        THEN Outcome(Err("failed to fill palette data buffer. unexpected end of file"), log1)
        ELSE
        let(fill_rgba(a, zeros(colors * 4),
                      chunks_exact(palette_data.val, bytes_per_color)),
            LAMBDA palette_rgba :
        IF ~palette_rgba.ok THEN Outcome(Err(palette_rgba.err), log1)
        ELSE
        let(read_exact(file, offset, n), LAMBDA pixel_data :
        IF ~pixel_data.ok
        THEN Outcome(Err("failed to fill pixel data buffer. unexpected end of file"), log2)
        ELSE let2(pixel_data.val, palette_rgba.val, LAMBDA data, table :
                  Outcome(Ok(new_handle(w, h,
                          indexed_expand(palette.bpp, data, table, w, h))), log2))))))

----------------------------------------------------------------------------
(* image.rs: Image::tiled *)

\* `&tiles[tile_y * tile_row + tile_x]`
tile_index_ColumnMajor(tile_x, tile_y, tile_row, tile_col) == tile_x * tile_col + tile_y

tile_index(tile_x, tile_y, tile_row, tile_col) == tile_y * tile_row + tile_x

tiled_compose_Transposed(tiles, w, h, tile_w, tile_h, tile_row, tile_col) ==
    [len |-> w * h * 4,
     at |-> [k \in 0..(w * h * 4 - 1) |->
                LET x == (k \div 4) % w
                    y == (k \div 4) \div w
                    tile_x == x \div tile_w
                    tile_y == y \div tile_h
                    src == ((x % tile_w) * tile_h + (y % tile_h)) * 4
                IN  tiles[tile_index(tile_x, tile_y, tile_row, tile_col)].val.at[src + (k % 4)]]]

\* The copy loops `for y in 0..h { for x in 0..w { .. } }`: the canvas they
\* leave, `tiles` being the decoded tiles in the order they were pushed.
tiled_compose(tiles, w, h, tile_w, tile_h, tile_row, tile_col) ==
    [len |-> w * h * 4,
     at |-> [k \in 0..(w * h * 4 - 1) |->
                LET x == (k \div 4) % w
                    y == (k \div 4) \div w
                    tile_x == x \div tile_w
                    tile_y == y \div tile_h
                    src == ((y % tile_h) * tile_w + (x % tile_w)) * 4
                IN  tiles[tile_index(tile_x, tile_y, tile_row, tile_col)].val.at[src + (k % 4)]]]

\* The rest of Image::tiled once both divisibility tests have passed: read
\* every tile, decode each, and copy the pixels into the canvas.
tiled_decode(a, file, w, h, offset, tile_w, tile_h) ==
    LET tile_row == w \div tile_w
        tile_col == h \div tile_h
        tile_count == tile_row * tile_col
        pixel_format == a.pixel_format.selected
        pixel_count == tile_w * tile_h
        bpp == bytes_per_pixel(pixel_format)
        log == <<OpSeek(offset), OpRead(pixel_count * bpp * tile_count)>>
    IN  let(read_exact(file, offset, pixel_count * bpp * tile_count),
            LAMBDA pixel_datas :
        IF ~pixel_datas.ok
        THEN Outcome(Err("failed to fill pixel data buffer. unexpected end of file"), log)
        ELSE
        \* `for pixel_data in pixel_datas.chunks_exact(pixel_count * bpp)`:
        \* tile t is the Result of its fill_rgba
        let([t \in 0..(tile_count - 1) |->
                fill_rgba(a, zeros(tile_w * tile_h * 4),
                          chunks_exact(slice(pixel_datas.val, t * pixel_count * bpp,
                                             pixel_count * bpp), bpp))],
            LAMBDA tiles :
            \* the `?` after fill_rgba returns at the first tile that fails
            IF \E t \in 0..(tile_count - 1) : ~tiles[t].ok
            THEN Outcome(Err(tiles[CHOOSE t \in 0..(tile_count - 1) :
                                     /\ ~tiles[t].ok
                                     /\ \A u \in 0..(t - 1) : tiles[u].ok].err), log)
            ELSE Outcome(Ok(new_handle(w, h,
                     tiled_compose(tiles, w, h, tile_w, tile_h, tile_row, tile_col))),
                     log)))

tiled_ReadFirst(a, file, w, h, offset) ==
    let2(parse_usize(a.tile.width), parse_usize(a.tile.height), LAMBDA tile_w, tile_h :
    IF ~tile_w.ok THEN Outcome(Err("tile width is empty"), <<>>)
    ELSE IF ~tile_h.ok THEN Outcome(Err("tile height is empty"), <<>>)
    ELSE IF tile_w.val = 0 \/ tile_h.val = 0
    THEN Outcome(Panic("attempt to calculate the remainder with a divisor of zero"), <<>>)
    ELSE LET log == <<OpSeek(offset),
                      OpRead(w * h * bytes_per_pixel(a.pixel_format.selected))>>
         IN  IF w % tile_w.val # 0
             THEN Outcome(Err("width is not divisible by tile width"), log)
             ELSE IF h % tile_h.val # 0
             THEN Outcome(Err("height is not divisible by tile height"), log)
             ELSE tiled_decode(a, file, w, h, offset, tile_w.val, tile_h.val))

\* `w % tile_w` and `h % tile_h` panic when the divisor is 0.
tiled(a, file, w, h, offset) ==
    let2(parse_usize(a.tile.width), parse_usize(a.tile.height), LAMBDA tile_w, tile_h :
    IF ~tile_w.ok THEN Outcome(Err("tile width is empty"), <<>>)
    ELSE IF ~tile_h.ok THEN Outcome(Err("tile height is empty"), <<>>)
    ELSE IF tile_w.val = 0
    THEN Outcome(Panic("attempt to calculate the remainder with a divisor of zero"), <<>>)
    ELSE IF w % tile_w.val # 0
    THEN Outcome(Err("width is not divisible by tile width"), <<>>)
    ELSE IF tile_h.val = 0
    THEN Outcome(Panic("attempt to calculate the remainder with a divisor of zero"), <<>>)
    ELSE IF h % tile_h.val # 0
    THEN Outcome(Err("height is not divisible by tile height"), <<>>)
    ELSE tiled_decode(a, file, w, h, offset, tile_w.val, tile_h.val))

----------------------------------------------------------------------------
(* app.rs: process_image and the ProcessImage arm of App::update *)

\* `match app.image_format`: each container mode runs its decoder.
dispatch(a, file, w, h, offset) ==
    CASE a.image_format = "Linear" -> linear(a, file, w, h, offset)
      [] a.image_format = "Indexed" -> indexed(a, file, w, h, offset)
      [] a.image_format = "Tiled" -> tiled(a, file, w, h, offset)

\* the decoder called with the values of its arguments
run_decoder(a, file_in, width_in, height_in, offset_in) ==
    let2(width_in, height_in, LAMBDA w, h :
    let2(file_in, offset_in, LAMBDA file, offset :
    let(dispatch(a, file, w, h, offset), LAMBDA out :
        Outcome(out.res, <<OpOpen>> \o out.ops))))

process_image_OpenFirst(a) ==
    IF ~a.filepath.some THEN Outcome(Err("file is empty"), <<>>)
    ELSE
    LET width == parse_usize(a.width)
        height == parse_usize(a.height)
        offset == parse_usize(a.offset)
        file == File_open(a.filepath.val)
    IN  IF ~file.ok THEN Outcome(Err(file.err), <<OpOpen>>)
        ELSE IF ~width.ok THEN Outcome(Err("width is empty"), <<OpOpen>>)
        ELSE IF ~height.ok THEN Outcome(Err("height is empty"), <<OpOpen>>)
        ELSE IF ~offset.ok THEN Outcome(Err("offset is empty"), <<OpOpen>>)
        ELSE IF width.val = 0 \/ height.val = 0
        THEN Outcome(Err("width or height cannot be zero"), <<OpOpen>>)
        ELSE run_decoder(a, file.val, width.val, height.val, offset.val)

process_image(a) ==
    IF ~a.filepath.some THEN Outcome(Err("file is empty"), <<>>)
    ELSE
    LET width == parse_usize(a.width)
        height == parse_usize(a.height)
        offset == parse_usize(a.offset)
    IN  IF ~width.ok THEN Outcome(Err("width is empty"), <<>>)
        ELSE IF ~height.ok THEN Outcome(Err("height is empty"), <<>>)
        ELSE IF ~offset.ok THEN Outcome(Err("offset is empty"), <<>>)
        ELSE IF width.val = 0 \/ height.val = 0
        THEN Outcome(Err("width or height cannot be zero"), <<>>)
        ELSE
        LET file == File_open(a.filepath.val) IN
        IF ~file.ok THEN Outcome(Err(file.err), <<OpOpen>>)
        ELSE run_decoder(a, file.val, width.val, height.val, offset.val)

ProcessImage_ClearsImageOnError ==
    /\ ~crashed
    /\ \E out \in {process_image(app)} :
       /\ ops' = out.ops
       /\ crashed' = out.res.panic
       /\ app' = IF out.res.panic THEN app
                 ELSE IF out.res.ok
                 THEN [app EXCEPT !.image = Some(out.res.val), !.error = NoneStr]
                 ELSE [app EXCEPT !.image = None, !.error = Some(out.res.err)]
    /\ last' = "ProcessImage"
    /\ handled' = TRUE
    /\ UNCHANGED <<arg, ret>>

\* Message::ProcessImage.  A panic ends the program: nothing is stored.
ProcessImage ==
    /\ ~crashed
    /\ \E out \in {process_image(app)} :
       /\ ops' = out.ops
       /\ crashed' = out.res.panic
       /\ app' = IF out.res.panic THEN app
                 ELSE IF out.res.ok
                 THEN [app EXCEPT !.image = Some(out.res.val), !.error = NoneStr]
                 ELSE [app EXCEPT !.error = Some(out.res.err)]
    /\ last' = "ProcessImage"
    /\ handled' = TRUE
    /\ UNCHANGED <<arg, ret>>

----------------------------------------------------------------------------
(* The decode requests of the model *)

\* the largest width, height, tile width and tile height typed in
MaxDim == 4

DimTexts == {<<>>} \cup {to_string(n) : n \in 0..MaxDim}

\* a character char::is_numeric accepts and str::parse::<usize> does not
NumericNotDigit == "²"

WidthTexts == DimTexts \cup {<<NumericNotDigit>>}

OffsetTexts == {<<>>, <<"0">>, <<"9">>}

PaletteOffsetTexts == {<<>>, <<"0">>, <<"8">>}

\* one format of each byte width but 3, and an order valid for each
DecodeFormats == {"RGBA8888", "RGB565", "L8"}

DecodeOrders == {<<"R", "G", "B", "A">>, <<"b", "g", "r">>}

FilePaths == {NoneStr} \cup {Some(p) : p \in Paths}

\* A request: every field the decode reads.  Fields a format or a container
\* mode does not read stay at their defaults.
DecodeInit ==
    /\ \E fp \in FilePaths, w \in WidthTexts, h \in DimTexts, off \in OffsetTexts,
          fmt \in DecodeFormats, ord \in DecodeOrders, mode \in ImageFormat :
       \E en \in (IF use_endian(fmt) THEN Endian ELSE {"LE"}),
          ign \in (IF use_alpha(fmt) THEN BOOLEAN ELSE {FALSE}),
          po \in (IF mode = "Indexed" THEN PaletteOffsetTexts
                  ELSE {PaletteInfo_default.offset}),
          pb \in (IF mode = "Indexed" THEN Bpp ELSE {PaletteInfo_default.bpp}),
          tw \in (IF mode = "Tiled" THEN DimTexts ELSE {TileInfo_default.width}),
          th \in (IF mode = "Tiled" THEN DimTexts ELSE {TileInfo_default.height}) :
          app = [filepath |-> fp, width |-> w, height |-> h, offset |-> off,
                 pixel_format |-> [selected |-> fmt, component_order |-> ord, endian |-> en],
                 ignore_alpha |-> ign, image_format |-> mode,
                 palette |-> [offset |-> po, bpp |-> pb],
                 tile |-> [width |-> tw, height |-> th],
                 image |-> None, error |-> NoneStr]
    /\ ops = <<>>
    /\ crashed = FALSE
    /\ last = "none"
    /\ arg = <<>>
    /\ ret = <<>>
    /\ handled = FALSE

\* one ProcessImage per request
DecodeNext == last = "none" /\ ProcessImage

SpecDecode == DecodeInit /\ [][DecodeNext]_vars

----------------------------------------------------------------------------
(* The order strings of the model: valid_order and rgba_order / rgb_order  *)
(* applied to every string over a small alphabet.                          *)

\* the longest order string typed in
MaxOrderLen == 4

\* both cases of some letters, and a letter no format uses
OrderChars == {"r", "g", "b", "a", "G", "A", "x"}

OrderTexts == UNION {[1..n -> OrderChars] : n \in 0..MaxOrderLen}

\* the fields of App that fill_rgba reads
PixelApp(fmt, ord, en, ign) ==
    [pixel_format |-> [selected |-> fmt, component_order |-> ord, endian |-> en],
     ignore_alpha |-> ign]

OrderInit ==
    /\ \E fmt \in PixelFormat, ord \in OrderTexts :
          app = PixelApp(fmt, [i \in 1..Len(ord) |-> ord[i]], "LE", FALSE)
    /\ ops = <<>>
    /\ crashed = FALSE
    /\ last = "none"
    /\ arg = <<>>
    /\ ret = <<>>
    /\ handled = FALSE

\* fill_rgba as far as the start of its loop
ResolveOrder ==
    /\ last = "none"
    /\ ret' = [order |-> valid_order(app.pixel_format.selected,
                                     app.pixel_format.component_order),
               idx |-> order_indices(app)]
    /\ last' = "ResolveOrder"
    /\ UNCHANGED <<app, ops, crashed, arg, handled>>

OrderNext == ResolveOrder

SpecOrder == OrderInit /\ [][OrderNext]_vars

----------------------------------------------------------------------------
(* The pixels of the model: fill_rgba applied to one chunk.                *)

\* the formats whose pixels are decoded: all of them
PixelFormats == PixelFormat

\* the byte values the sampled chunks are made of
ByteSamples == {0, 18, 52, 128, 255}

Letters(fmt) == IF use_alpha(fmt) THEN {"r", "g", "b", "a"} ELSE {"r", "g", "b"}

\* every arrangement of the letters of fmt, its default order, and the
\* default order of the other channel count, which is no order of fmt
PixelOrders(fmt) ==
    (IF use_alpha(fmt)
     THEN {ord \in {<<c1, c2, c3, c4>> : c1 \in Letters(fmt), c2 \in Letters(fmt),
                                         c3 \in Letters(fmt), c4 \in Letters(fmt)} :
              Cardinality({ord[i] : i \in 1..4}) = 4}
     ELSE {ord \in {<<c1, c2, c3>> : c1 \in Letters(fmt), c2 \in Letters(fmt),
                                     c3 \in Letters(fmt)} :
              Cardinality({ord[i] : i \in 1..3}) = 3})
    \cup {<<"R", "G", "B", "A">>, <<"R", "G", "B">>}

PixelInit ==
    /\ \/ \* every 16-bit word, little-endian, in the default order
          \E fmt \in {f \in PixelFormats : bytes_per_pixel(f) = 2},
             b0 \in 0..255, b1 \in 0..255 :
             /\ app = PixelApp(fmt, to_ascii_lowercase(default_order(fmt)), "LE", FALSE)
             /\ arg = [j \in 0..1 |-> IF j = 0 THEN b0 ELSE b1]
       \/ \* sampled bytes, in every order
          \E fmt \in PixelFormats, ign \in BOOLEAN :
          \E ord \in PixelOrders(fmt), en \in Endian,
             chunk \in [0..(bytes_per_pixel(fmt) - 1) -> ByteSamples] :
             /\ app = PixelApp(fmt, ord, en, ign)
             /\ arg = chunk
    /\ ops = <<>>
    /\ crashed = FALSE
    /\ last = "none"
    /\ ret = <<>>
    /\ handled = FALSE

\* fill_rgba on a buffer of one pixel
DecodePixel ==
    /\ last = "none"
    /\ ret' = fill_rgba(app, zeros(4),
                        chunks_exact([len |-> bytes_per_pixel(app.pixel_format.selected),
                                      at |-> arg],
                                     bytes_per_pixel(app.pixel_format.selected)))
    /\ last' = "DecodePixel"
    /\ UNCHANGED <<app, ops, crashed, arg, handled>>

PixelNext == DecodePixel

SpecPixel == PixelInit /\ [][PixelNext]_vars

----------------------------------------------------------------------------
(* The request a state of SpecDecode holds, read the way the decode reads  *)
(* it.  The values are meaningful where the texts parse.                   *)

Selected == app.pixel_format.selected

ReqWidth == parse_usize(app.width).val

ReqHeight == parse_usize(app.height).val

ReqOffset == parse_usize(app.offset).val

ReqFile == app.filepath.val

ReqPaletteOffset == parse_usize(app.palette.offset).val

ReqTileWidth == parse_usize(app.tile.width).val

ReqTileHeight == parse_usize(app.tile.height).val

\* the request passes the geometry tests and its file opens
FileOpened ==
    /\ app.filepath.some
    /\ parse_usize(app.width).ok
    /\ parse_usize(app.height).ok
    /\ parse_usize(app.offset).ok
    /\ ReqWidth > 0
    /\ ReqHeight > 0
    /\ FileExists(ReqFile)

\* a Tiled request whose tile sizes are positive numbers
TileSizes ==
    /\ FileOpened
    /\ app.image_format = "Tiled"
    /\ parse_usize(app.tile.width).ok
    /\ parse_usize(app.tile.height).ok
    /\ ReqTileWidth > 0
    /\ ReqTileHeight > 0

\* the bytes of the file from pos on are fewer than n
Short(pos, n) ==
    (IF FileLen(ReqFile) > pos THEN FileLen(ReqFile) - pos ELSE 0) < n

\* the colour the format decodes from the chunk at pos of the file
ColourAt(pos) ==
    arm(app, order_indices(app).val,
        [b \in 0..(bytes_per_pixel(Selected) - 1) |-> FileByte(ReqFile, pos + b)],
        <<0, 0, 0, 0>>)

\* the canvas bytes of pixel p are the colour
PixelIs(p, colour) ==
    \A c \in 0..3 : app.image.val.rgba[p * 4 + c] = colour[c + 1]

----------------------------------------------------------------------------
(* C1 *)

\* C1: a request with several faults returns the earliest in the order
\* geometry, component order, palette offset, tile divisibility, read
\* failure.  In particular, in every container mode a request that passes
\* the geometry tests and whose component order is invalid for the format
\* returns "invalid component order", whatever else is wrong with it.
C1_InvalidOrderFirst ==
    (/\ last = "ProcessImage"
     /\ ~crashed
     /\ FileOpened
     /\ ~valid_order(Selected, app.pixel_format.component_order).some)
    => (app.error.some /\ app.error.val = "invalid component order")

\* the order is invalid and the palette offset is empty: the palette
\* offset is what the decode reports
C1_PaletteOffsetReported ==
    /\ last = "ProcessImage"
    /\ FileOpened
    /\ app.image_format = "Indexed"
    /\ Selected = "RGBA8888"
    /\ app.pixel_format.component_order = <<"b", "g", "r">>
    /\ ~valid_order(Selected, app.pixel_format.component_order).some
    /\ app.palette.offset = <<>>
    /\ app.error.some
    /\ app.error.val = "palette offset is empty"

----------------------------------------------------------------------------
(* C2 *)

Order == app.pixel_format.component_order

\* how often chr occurs in the string
Occurrences(str, chr) == Cardinality({i \in 1..Len(str) : str[i] = chr})

\* the string holds each of the letters once and nothing else
IsPermutation(str, letters) ==
    /\ Len(str) = Cardinality(letters)
    /\ \A chr \in letters : Occurrences(str, chr) = 1

\* the channels in the order rgba_order and rgb_order return them
ChannelLetters == <<"r", "g", "b", "a">>

\* C2: valid_order accepts an order string for a format with an order
\* exactly when the lower-cased string is a permutation of the letters of
\* the format (r, g, b, a for RGBA8888, RGBA4444, RGBA5551; r, g, b for
\* RGB888, RGB565): "rgb" is refused for a 4-channel format and "rgab" is
\* accepted.  On acceptance rgba_order / rgb_order return, for each channel,
\* the one index of its letter in the string: the indices are pairwise
\* distinct and within 0..channel_count-1.
C2_ValidOrderIsPermutation ==
    (last = "ResolveOrder" /\ is_orderable(Selected))
    => LET lower == to_ascii_lowercase(Order)
           channels == Cardinality(Letters(Selected))
       IN  /\ ret.order.some <=> IsPermutation(lower, Letters(Selected))
           /\ (Order = <<"r", "g", "b">> /\ use_alpha(Selected)) => ~ret.order.some
           /\ (Order = <<"r", "g", "a", "b">> /\ use_alpha(Selected)) => ret.order.some
           /\ ret.order.some
              => /\ ret.order.val = lower
                 /\ ret.idx.ok
                 /\ Len(ret.idx.val) = channels
                 /\ \A k \in 1..channels :
                       /\ ret.idx.val[k] \in 0..(channels - 1)
                       /\ lower[ret.idx.val[k] + 1] = ChannelLetters[k]
                       /\ \A i \in 0..(channels - 1) :
                             lower[i + 1] = ChannelLetters[k] => i = ret.idx.val[k]
                 /\ \A k \in 1..channels, m \in 1..channels :
                       k # m => ret.idx.val[k] # ret.idx.val[m]

C2_OrderRgab ==
    /\ last = "ResolveOrder"
    /\ Selected = "RGBA8888"
    /\ Order = <<"r", "g", "a", "b">>
    /\ ret.order.some
    /\ ret.idx.ok
    /\ ret.idx.val = <<0, 1, 3, 2>>

----------------------------------------------------------------------------
(* C3 *)

\* a read the decode performs finds fewer bytes than it asks for
Underrun ==
    /\ FileOpened
    /\ CASE app.image_format = "Linear" ->
                Short(ReqOffset, ReqWidth * ReqHeight * bytes_per_pixel(Selected))
         [] app.image_format = "Tiled" ->
                /\ TileSizes
                /\ ReqWidth % ReqTileWidth = 0
                /\ ReqHeight % ReqTileHeight = 0
                /\ Short(ReqOffset,
                         (ReqWidth \div ReqTileWidth) * (ReqHeight \div ReqTileHeight)
                         * (ReqTileWidth * ReqTileHeight) * bytes_per_pixel(Selected))
         [] app.image_format = "Indexed" ->
                /\ parse_usize(app.palette.offset).ok
                /\ \/ Short(ReqPaletteOffset,
                            color_count(app.palette.bpp) * bytes_per_pixel(Selected))
                   \/ Short(ReqOffset,
                            index_bytes(app.palette.bpp, ReqWidth, ReqHeight))

FillErrors ==
    {"failed to fill pixel data buffer. unexpected end of file",
     "failed to fill palette data buffer. unexpected end of file"}

----------------------------------------------------------------------------
(* C4 *)

TileMismatchErrors ==
    {"width is not divisible by tile width", "height is not divisible by tile height"}

\* C4: in Tiled mode, when the width is no multiple of the tile width or the
\* height no multiple of the tile height, the decode ends with the tile
\* mismatch error; and whenever it ends with that error it has performed no
\* seek and no read on the file.
C4_TileMismatchBeforeRead ==
    last = "ProcessImage" =>
       /\ (/\ TileSizes
           /\ \/ ReqWidth % ReqTileWidth # 0
              \/ ReqHeight % ReqTileHeight # 0)
          => (/\ ~app.image.some
              /\ app.error.some
              /\ app.error.val \in TileMismatchErrors)
       /\ (app.error.some /\ app.error.val \in TileMismatchErrors)
          => \A i \in 1..Len(ops) : ops[i][1] \notin {"seek", "read"}

C4_WidthThreeTileTwo ==
    /\ last = "ProcessImage"
    /\ TileSizes
    /\ ReqWidth = 3
    /\ ReqTileWidth = 2
    /\ app.error.val = "width is not divisible by tile width"
    /\ ops = <<OpOpen>>

----------------------------------------------------------------------------
(* C5 *)

\* C5: the canvas of a Tiled decode holds, at pixel (x, y), the colour
\* decoded from pixel (y % tile_height) * tile_width + (x % tile_width) of
\* tile (y / tile_height) * tiles_per_row + (x / tile_width) of the stream,
\* tiles_per_row being width / tile_width; that tile number is below the
\* tile count.  A 4x4 image of 2x2 tiles, tile k filled with k, has the
\* quadrants 0 (top left), 1 (top right), 2 (bottom left), 3 (bottom right).
C5_RowMajorTiles ==
    (last = "ProcessImage" /\ app.image_format = "Tiled" /\ app.image.some)
    => LET tiles_per_row == ReqWidth \div ReqTileWidth
           tile_count == tiles_per_row * (ReqHeight \div ReqTileHeight)
           tile_pixels == ReqTileWidth * ReqTileHeight
       IN  /\ \A x \in 0..(ReqWidth - 1), y \in 0..(ReqHeight - 1) :
                LET t == (y \div ReqTileHeight) * tiles_per_row + (x \div ReqTileWidth)
                    j == (y % ReqTileHeight) * ReqTileWidth + (x % ReqTileWidth)
                IN  /\ t < tile_count
                    /\ PixelIs(y * ReqWidth + x,
                               ColourAt(ReqOffset
                                        + (t * tile_pixels + j) * bytes_per_pixel(Selected)))
           /\ (/\ ReqFile = "tiles.bin"
               /\ ReqOffset = 0
               /\ Selected = "L8"
               /\ ReqWidth = 4 /\ ReqHeight = 4
               /\ ReqTileWidth = 2 /\ ReqTileHeight = 2)
              => \A x \in 0..3, y \in 0..3 :
                    app.image.val.rgba[(y * 4 + x) * 4]
                        = (IF y < 2 THEN 0 ELSE 2) + (IF x < 2 THEN 0 ELSE 1)

C5_Quadrants ==
    /\ last = "ProcessImage"
    /\ app.image_format = "Tiled"
    /\ app.image.some
    /\ ReqFile = "tiles.bin"
    /\ Selected = "L8"
    /\ ReqWidth = 4 /\ ReqHeight = 4
    /\ ReqTileWidth = 2 /\ ReqTileHeight = 2
    /\ app.image.val.rgba[(0 * 4 + 3) * 4] = 1
    /\ app.image.val.rgba[(3 * 4 + 0) * 4] = 2
    /\ app.image.val.rgba[(3 * 4 + 3) * 4] = 3

----------------------------------------------------------------------------
(* C6 *)

\* C6: an Indexed decode with 4-bit indices gives every pixel p of the
\* canvas, the last one of an odd pixel count included, the colour table
\* entry n, n being the low nibble of index byte p / 2 when p is even and
\* its high nibble when p is odd.
C6_EveryPixelExpanded ==
    (/\ last = "ProcessImage"
     /\ app.image_format = "Indexed"
     /\ app.palette.bpp = "Bpp4"
     /\ app.image.some)
    => \A p \in 0..(ReqWidth * ReqHeight - 1) :
          LET byte == FileByte(ReqFile, ReqOffset + (p \div 2))
              n == IF p % 2 = 0 THEN byte % 16 ELSE byte \div 16
          IN  PixelIs(p, ColourAt(ReqPaletteOffset + n * bytes_per_pixel(Selected)))

\* nine pixels from 4-bit indices: the ninth keeps the zeros of the buffer
C6_LastPixelUnwritten ==
    /\ last = "ProcessImage"
    /\ app.image_format = "Indexed"
    /\ app.palette.bpp = "Bpp4"
    /\ app.image.some
    /\ ReqFile = "indexed.bin"
    /\ Selected = "L8"
    /\ ReqPaletteOffset = 8
    /\ ReqOffset = 0
    /\ ReqWidth = 3 /\ ReqHeight = 3
    /\ PixelIs(7, <<7, 7, 7, 255>>)
    /\ PixelIs(8, <<0, 0, 0, 0>>)

----------------------------------------------------------------------------
(* C7 .. C10: one pixel.  arg is the chunk, ret the Result of fill_rgba    *)
(* and ret.val the four bytes of the pixel.                                *)

\* the pixel of format fmt has been decoded under an order valid for it
PixelDecoded(fmt) ==
    /\ last = "DecodePixel"
    /\ Selected = fmt
    /\ IsPermutation(to_ascii_lowercase(Order), Letters(fmt))

\* the position of the letter in the order string, from 0
PositionOf(chr) ==
    CHOOSE i \in 0..(Len(Order) - 1) : to_ascii_lowercase(Order)[i + 1] = chr

\* the 16-bit word of the chunk
Word ==
    IF app.pixel_format.endian = "LE" THEN arg[0] + 256 * arg[1]
    ELSE 256 * arg[0] + arg[1]

\* the field of `bits` bits at bit offset `off` of the word
Field(off, bits) == (Word \div (2 ^ off)) % (2 ^ bits)

\* the bytes of the decoded pixel are r, g, b, a
OutIs(r, g, b, a) ==
    /\ ret.ok
    /\ ret.val.len = 4
    /\ ret.val.at[0] = r
    /\ ret.val.at[1] = g
    /\ ret.val.at[2] = b
    /\ ret.val.at[3] = a

\* C7: an RGBA8888 pixel decoded under a valid order has R, G, B equal to
\* the input bytes at the positions of r, g, b in the order string, and A
\* equal to the byte at the position of a, or 255 when ignore_alpha is set;
\* under "rgba" without ignore_alpha the output bytes are the input bytes.
C7_RGBA8888Permutes ==
    PixelDecoded("RGBA8888")
    => /\ OutIs(arg[PositionOf("r")], arg[PositionOf("g")], arg[PositionOf("b")],
                IF app.ignore_alpha THEN 255 ELSE arg[PositionOf("a")])
       /\ (Order = <<"r", "g", "b", "a">> /\ ~app.ignore_alpha)
          => OutIs(arg[0], arg[1], arg[2], arg[3])

C7_BgraIgnoringAlpha ==
    /\ PixelDecoded("RGBA8888")
    /\ Order = <<"b", "g", "r", "a">>
    /\ app.ignore_alpha
    /\ arg[0] = 18 /\ arg[1] = 0 /\ arg[2] = 52 /\ arg[3] = 128
    /\ OutIs(52, 0, 18, 255)

\* C8: an RGBA4444 word is split into the 4-bit fields at bit offsets 0, 4,
\* 8, 12, each multiplied by 17, and channel c takes the field whose number
\* is the position of the letter c in the order string (alpha is 255 when
\* ignore_alpha is set); the little-endian word 0x1234 under "rgba" decodes
\* to (4*17, 3*17, 2*17, 1*17).
C8_RGBA4444Fields ==
    PixelDecoded("RGBA4444")
    => /\ OutIs(17 * Field(4 * PositionOf("r"), 4),
                17 * Field(4 * PositionOf("g"), 4),
                17 * Field(4 * PositionOf("b"), 4),
                IF app.ignore_alpha THEN 255 ELSE 17 * Field(4 * PositionOf("a"), 4))
       /\ (/\ app.pixel_format.endian = "LE"
           /\ Word = \h1234
           /\ Order = <<"r", "g", "b", "a">>
           /\ ~app.ignore_alpha)
          => OutIs(68, 51, 34, 17)

C8_Word1234 ==
    /\ PixelDecoded("RGBA4444")
    /\ app.pixel_format.endian = "LE"
    /\ arg[0] = \h34
    /\ arg[1] = \h12
    /\ Order = <<"r", "g", "b", "a">>
    /\ ~app.ignore_alpha
    /\ OutIs(68, 51, 34, 17)

\* a 5-bit field scaled to 8 bits
Expand5(v) == 8 * v + (8 * v) \div 32

\* a 6-bit field scaled to 8 bits
Expand6(v) == 4 * v + (4 * v) \div 64

\* field number k of a 5-5-5-1 word, scaled
Scaled5551(k) ==
    IF k < 3 THEN Expand5(Field(5 * k, 5)) ELSE 255 * Field(15, 1)

\* C9: an RGBA5551 word has its 5-bit fields v at bit offsets 0, 5, 10
\* expanded to 8v + (8v) div 32 and its 1-bit field at offset 15 to 0 or
\* 255, and the order string assigns the fields to the channels; under
\* "rgba" without ignore_alpha the word of sixteen 1 bits decodes to
\* (255, 255, 255, 255) and the word 0 to (0, 0, 0, 0).
C9_RGBA5551Fields ==
    PixelDecoded("RGBA5551")
    => /\ OutIs(Scaled5551(PositionOf("r")),
                Scaled5551(PositionOf("g")),
                Scaled5551(PositionOf("b")),
                IF app.ignore_alpha THEN 255 ELSE Scaled5551(PositionOf("a")))
       /\ Scaled5551(3) \in {0, 255}
       /\ (Order = <<"r", "g", "b", "a">> /\ ~app.ignore_alpha)
          => /\ Word = \hFFFF => OutIs(255, 255, 255, 255)
             /\ Word = 0 => OutIs(0, 0, 0, 0)

C9_AllOnes ==
    /\ PixelDecoded("RGBA5551")
    /\ Order = <<"r", "g", "b", "a">>
    /\ ~app.ignore_alpha
    /\ Word = \hFFFF
    /\ OutIs(255, 255, 255, 255)

\* field number k of a 5-6-5 word, scaled
Scaled565(k) ==
    CASE k = 0 -> Expand5(Field(0, 5))
      [] k = 1 -> Expand6(Field(5, 6))
      [] k = 2 -> Expand5(Field(11, 5))

\* C10: an RGB565 word has its fields at bit offsets 0 (5 bits), 5 (6 bits)
\* and 11 (5 bits) expanded to 8v + (8v) div 32 for the 5-bit fields and
\* 4v + (4v) div 64 for the 6-bit field, assigned to R, G, B by the
\* positions of r, g, b in the order string; alpha is 255 whatever
\* ignore_alpha is.
C10_RGB565Fields ==
    PixelDecoded("RGB565")
    => OutIs(Scaled565(PositionOf("r")),
             Scaled565(PositionOf("g")),
             Scaled565(PositionOf("b")),
             255)

C10_BgrWord ==
    /\ PixelDecoded("RGB565")
    /\ Order = <<"b", "g", "r">>
    /\ ~app.ignore_alpha
    /\ app.pixel_format.endian = "LE"
    /\ arg[0] = 255
    /\ arg[1] = 18
    /\ OutIs(16, 93, 255, 255)

----------------------------------------------------------------------------
(* C11 *)

GeometryErrors == {"width is empty", "height is empty", "offset is empty"}

\* C11: a request (with a file chosen) whose width, height or offset text
\* is empty or does not parse as a non-negative integer fails with a
\* geometry error, and one whose three texts parse and whose width or
\* height is zero fails with the zero-dimension error; in both cases the
\* file has not been opened or read and no decoder has run.
C11_GeometryBeforeFile ==
    (last = "ProcessImage" /\ app.filepath.some)
    => /\ (\/ ~parse_usize(app.width).ok
           \/ ~parse_usize(app.height).ok
           \/ ~parse_usize(app.offset).ok)
          => /\ app.error.some
             /\ app.error.val \in GeometryErrors
             /\ ~app.image.some
             /\ ops = <<>>
       /\ (/\ parse_usize(app.width).ok
           /\ parse_usize(app.height).ok
           /\ parse_usize(app.offset).ok
           /\ (ReqWidth = 0 \/ ReqHeight = 0))
          => /\ app.error.some
             /\ app.error.val = "width or height cannot be zero"
             /\ ~app.image.some
             /\ ops = <<>>

\* a width that is numeric to the text filter and does not parse
C11_UnparsableWidth ==
    /\ last = "ProcessImage"
    /\ app.filepath.some
    /\ FileExists(app.filepath.val)
    /\ app.width = <<NumericNotDigit>>
    /\ app.error.some
    /\ app.error.val = "width is empty"
    /\ ops = <<>>

----------------------------------------------------------------------------
(* C12 *)

\* a Tiled request whose tile sizes parse
TileSizesParsed ==
    /\ last = "ProcessImage"
    /\ FileOpened
    /\ app.image_format = "Tiled"
    /\ parse_usize(app.tile.width).ok
    /\ parse_usize(app.tile.height).ok

\* C12: in Tiled mode a tile width or tile height of zero is rejected with
\* an error value: the decode does not go on to compute a remainder or a
\* quotient by the zero tile size.
C12_ZeroTileRejected ==
    (TileSizesParsed /\ (ReqTileWidth = 0 \/ ReqTileHeight = 0))
    => /\ ~crashed
       /\ app.error.some
       /\ ~app.image.some

\* the remainder by a tile width of zero has been computed: the handler
\* panicked and stored neither an image nor an error
C12_ZeroTileWidthPanics ==
    /\ TileSizesParsed
    /\ ReqTileWidth = 0
    /\ ReqTileHeight = 2
    /\ crashed
    /\ ~app.error.some
    /\ ~app.image.some

----------------------------------------------------------------------------
(* C13 *)

\* C13: a tiled container mode expands each tile's bytes through the
\* palette: canvas pixel (x, y) is the colour table entry whose index is
\* byte (y % tile_height) * tile_width + (x % tile_width) of tile
\* (y / tile_height) * tiles_per_row + (x / tile_width) of the stream.
\* Tiled is the one container mode with tiles.
C13_TilesThroughPalette ==
    (/\ last = "ProcessImage"
     /\ app.image_format = "Tiled"
     /\ parse_usize(app.palette.offset).ok
     /\ app.palette.bpp = "Bpp8"
     /\ app.image.some)
    => LET tiles_per_row == ReqWidth \div ReqTileWidth
           tile_pixels == ReqTileWidth * ReqTileHeight
       IN  \A x \in 0..(ReqWidth - 1), y \in 0..(ReqHeight - 1) :
              LET t == (y \div ReqTileHeight) * tiles_per_row + (x \div ReqTileWidth)
                  j == (y % ReqTileHeight) * ReqTileWidth + (x % ReqTileWidth)
                  n == FileByte(ReqFile, ReqOffset + t * tile_pixels + j)
              IN  PixelIs(y * ReqWidth + x,
                          ColourAt(ReqPaletteOffset + n * bytes_per_pixel(Selected)))

\* the tiles of tiles.bin decoded as colours, not as indices: the bottom
\* right quadrant is the grey 3, where the table entry 3 is the grey 0
C13_TilesAreColours ==
    /\ last = "ProcessImage"
    /\ app.image_format = "Tiled"
    /\ app.image.some
    /\ ReqFile = "tiles.bin"
    /\ Selected = "L8"
    /\ ReqOffset = 0
    /\ ReqPaletteOffset = 0
    /\ ReqWidth = 4 /\ ReqHeight = 4
    /\ ReqTileWidth = 2 /\ ReqTileHeight = 2
    /\ FileByte(ReqFile, ReqPaletteOffset + 3) = 0
    /\ PixelIs(15, <<3, 3, 3, 255>>)

----------------------------------------------------------------------------
(* C14 *)

\* fill_rgba on a one-pixel buffer holding the chunk, as DecodePixel runs it
DecodeOne(a, chunk) ==
    fill_rgba(a, zeros(4),
              chunks_exact([len |-> bytes_per_pixel(a.pixel_format.selected),
                            at |-> chunk],
                           bytes_per_pixel(a.pixel_format.selected)))

\* the request of the state with the other endianness
OtherEndian ==
    [app EXCEPT !.pixel_format.endian = IF @ = "LE" THEN "BE" ELSE "LE"]

\* the Result r is the Result of the state
SameAsRet(r) ==
    /\ r.ok = ret.ok
    /\ ret.ok => r.val.at = ret.val.at

\* C14: endianness only says how the two bytes of a 2-byte format form the
\* word (LE: b0 + 256 b1, BE: 256 b0 + b1): for RGBA4444, RGBA5551 and
\* RGB565 the bytes [b0, b1] decoded under one endianness give the pixel
\* that [b1, b0] give under the other, and for every format of another byte
\* width the pixel is the same under LE and BE.
C14_EndianOrdersTwoBytes ==
    last = "DecodePixel"
    => /\ use_endian(Selected) <=> Selected \in {"RGBA4444", "RGBA5551", "RGB565"}
       /\ IF use_endian(Selected)
          THEN /\ pixel_word(app, arg) = Word
               /\ SameAsRet(DecodeOne(OtherEndian, [j \in 0..1 |-> arg[1 - j]]))
          ELSE SameAsRet(DecodeOne(OtherEndian, arg))

\* the bytes 0x12, 0x34 read big-endian are the word 0x1234
C14_BigEndian1234 ==
    /\ PixelDecoded("RGBA4444")
    /\ app.pixel_format.endian = "BE"
    /\ arg[0] = \h12
    /\ arg[1] = \h34
    /\ Order = <<"r", "g", "b", "a">>
    /\ ~app.ignore_alpha
    /\ OutIs(68, 51, 34, 17)

----------------------------------------------------------------------------
(* app.rs: App::default and the arms of App::update.  The messages of the   *)
(* model: a session of the GUI from the state after construction.           *)

\* PixelFormatState::default
PixelFormatState_default ==
    [selected |-> "RGBA8888",
     component_order |-> default_order("RGBA8888"),
     endian |-> "LE"]

\* #[derive(Default)] for App
App_default ==
    [filepath |-> NoneStr, width |-> <<>>, height |-> <<>>, offset |-> <<>>,
     pixel_format |-> PixelFormatState_default,
     ignore_alpha |-> FALSE, image_format |-> "Linear",
     palette |-> PaletteInfo_default,
     tile |-> TileInfo_default,
     image |-> None, error |-> NoneStr]

\* char::is_numeric on the characters of the model: the ASCII digits and the
\* superscript two (Unicode category No) are numeric, letters are not.
is_numeric(c) == c = NumericNotDigit \/ \E i \in 1..10 : DigitChars[i] = c

TextInput == {"Width", "Height", "Offset", "PaletteOffset"}

\* what the file dialog returns: nothing (cancelled) or the file picked
PickedPaths == {NoneStr, Some("indexed.bin")}

\* texts typed into a field: a number, and a text the arm rejects
TypedTexts == {<<"2">>, <<"a">>}

\* formats chosen in the pick list, one of each default order
ChosenFormats == {"RGBA8888", "RGB888", "L8"}

\* orders typed into the component order field
TypedOrders == {<<"b", "g", "r">>}

\* an arm of App::update that ends with the fields `a`
Handled(name, a) ==
    /\ ~crashed
    /\ app' = a
    /\ last' = name
    /\ UNCHANGED <<ops, crashed, arg, ret, handled>>

PickFile(path) ==
    Handled("PickFile", IF path.some THEN [app EXCEPT !.filepath = path] ELSE app)

TextInputChanged(kind, input) ==
    Handled("TextInputChanged",
            IF (\A k \in 1..Len(input) : is_numeric(input[k])) \/ Len(input) = 0
            THEN CASE kind = "Width" -> [app EXCEPT !.width = input]
                   [] kind = "Height" -> [app EXCEPT !.height = input]
                   [] kind = "Offset" -> [app EXCEPT !.offset = input]
                   [] kind = "PaletteOffset" -> [app EXCEPT !.palette.offset = input]
            ELSE app)

PixelFormatChanged(pixel_format) ==
    Handled("PixelFormatChanged",
            [app EXCEPT !.pixel_format.selected = pixel_format,
                        !.pixel_format.component_order = default_order(pixel_format)])

OrderChanged(order) ==
    Handled("OrderChanged", [app EXCEPT !.pixel_format.component_order = order])

EndianChanged(endian) ==
    Handled("EndianChanged", [app EXCEPT !.pixel_format.endian = endian])

IgnoreAlphaChanged(val) ==
    Handled("IgnoreAlphaChanged", [app EXCEPT !.ignore_alpha = val])

ImageFormatChanged(image_format) ==
    Handled("ImageFormatChanged", [app EXCEPT !.image_format = image_format])

PaletteBppChanged(bpp) ==
    Handled("PaletteBppChanged", [app EXCEPT !.palette.bpp = bpp])

Init ==
    /\ app = App_default
    /\ ops = <<>>
    /\ crashed = FALSE
    /\ last = "none"
    /\ arg = <<>>
    /\ ret = <<>>
    /\ handled = FALSE

\* App::update on any message
Next ==
    \/ \E path \in PickedPaths : PickFile(path)
    \/ \E kind \in TextInput, input \in TypedTexts : TextInputChanged(kind, input)
    \/ \E pixel_format \in ChosenFormats : PixelFormatChanged(pixel_format)
    \/ \E order \in TypedOrders : OrderChanged(order)
    \/ \E endian \in Endian : EndianChanged(endian)
    \/ \E val \in BOOLEAN : IgnoreAlphaChanged(val)
    \/ \E image_format \in ImageFormat : ImageFormatChanged(image_format)
    \/ \E bpp \in Bpp : PaletteBppChanged(bpp)
    \/ ProcessImage

Spec == Init /\ [][Next]_vars

----------------------------------------------------------------------------
(* C15 *)

\* the fields of App the widgets edit: everything but the image and the error
Inputs(a) == [a EXCEPT !.image = None, !.error = NoneStr]

\* two Option<Handle> are the same
SameImage(i, j) == i.some = j.some /\ (i.some => i.val = j.val)

\* A step that handles ProcessImage: a failed decode stores its message and
\* leaves the image; a decode that succeeds stores its image and clears the
\* error; both leave every input field.
C15_ProcessImageStep ==
    last' = "ProcessImage"
    => \A r \in {process_image(app).res} :
          /\ ~r.panic
          /\ Inputs(app') = Inputs(app)
          /\ r.ok => /\ SameImage(app'.image, Some(r.val))
                     /\ ~app'.error.some
          /\ ~r.ok => /\ app'.error.some
                      /\ app'.error.val = r.err
                      /\ SameImage(app'.image, app.image)

\* C15: in the GUI, a ProcessImage whose decode fails sets the error text and
\* leaves the image shown before and every input field as they were; one
\* whose decode succeeds replaces the image and clears the error.  So a state
\* with no image and no error is one in which no ProcessImage was handled.
C15_FailureKeepsImage ==
    /\ [][C15_ProcessImageStep]_vars
    /\ []((~app.image.some /\ ~app.error.some) => ~handled)

\* an image of an earlier decode shown together with the error of a later one
C15_StaleImageWithError ==
    /\ last = "ProcessImage"
    /\ app.image.some
    /\ app.error.some
    /\ app.error.val = "invalid component order"

----------------------------------------------------------------------------
(* C16 *)

\* the stored order is the default order of the selected format
DefaultOrderStored ==
    app.pixel_format.component_order = default_order(app.pixel_format.selected)

\* PixelFormatChanged stores the default order of the new format; only it
\* and OrderChanged touch the format and the order; ProcessImage with the
\* default order stored does not fail on the order.
C16_Step ==
    /\ last' = "PixelFormatChanged"
       => app'.pixel_format.component_order = default_order(app'.pixel_format.selected)
    /\ last' \notin {"PixelFormatChanged", "OrderChanged"}
       => /\ app'.pixel_format.selected = app.pixel_format.selected
          /\ app'.pixel_format.component_order = app.pixel_format.component_order
    /\ (last' = "ProcessImage" /\ DefaultOrderStored)
       => ~(app'.error.some /\ app'.error.val = "invalid component order")

\* C16: PixelFormatChanged(f) overwrites the stored order with the default
\* order of f; valid_order accepts the default order of each of the nine
\* formats; and no message but OrderChanged changes the order afterwards, so a
\* ProcessImage after a PixelFormatChanged with no OrderChanged in between
\* never fails with "invalid component order".
C16_DefaultOrderIsValid ==
    /\ [](\A f \in PixelFormat : valid_order(f, default_order(f)).some)
    /\ [][C16_Step]_vars

\* RGB888 chosen after "bgr" was typed for another format, then decoded
C16_DecodedAfterFormatChange ==
    /\ last = "ProcessImage"
    /\ Selected = "RGB888"
    /\ DefaultOrderStored
    /\ app.image.some
    /\ ~app.error.some

----------------------------------------------------------------------------
(* C17 *)

\* a Tiled request whose tiles are as wide as the image and whose tile height
\* divides the height
FullRowTiles ==
    /\ last = "ProcessImage"
    /\ TileSizes
    /\ ReqTileWidth = ReqWidth
    /\ ReqHeight % ReqTileHeight = 0

\* the outcome of ProcessImage is the Result r of a decoder
IsOutcome(r) ==
    /\ ~crashed
    /\ app.image.some <=> r.ok
    /\ app.error.some <=> ~r.ok
    /\ r.ok => /\ app.image.val.width = r.val.width
               /\ app.image.val.height = r.val.height
               /\ app.image.val.rgba = r.val.rgba
    /\ ~r.ok => app.error.val = r.err

\* C17: with tiles that span full rows (tile width = width, tile height a
\* divisor of the height, the height itself and 1 included) the Tiled decode
\* gives what Image::linear gives for the same file, offset, pixel format,
\* component order, endianness and ignore_alpha: the same canvas, or the same
\* error.
C17_FullRowTilesAreLinear ==
    FullRowTiles
    => IsOutcome(linear(app, ReqFile, ReqWidth, ReqHeight, ReqOffset).res)

\* a 2 x 4 image in two tiles of 2 x 2
C17_TwoByFourInTwoTiles ==
    /\ FullRowTiles
    /\ ReqWidth = 2
    /\ ReqHeight = 4
    /\ ReqTileHeight = 2
    /\ app.image.some
    /\ \E p \in 0..3 : app.image.val.rgba[4 * p] # app.image.val.rgba[4 * (p + 4)]

----------------------------------------------------------------------------
(* C18 *)

\* 17 v, the scaling of a 4-bit field
Expand4(v) == 17 * v

\* 255 v, the scaling of the alpha bit
Expand1(v) == 255 * v

\* The code's value for a field of the state's word is `exact`, the product
\* or sum without wrapping; it lies in a byte; the scaling does not decrease
\* from this field value to the next; it gives 0 for the field 0 and 255 for
\* the largest field.
ScalesExactly(code, exact, next, v, max) ==
    /\ exact \in 0..255
    /\ code = exact
    /\ v < max => exact <= next
    /\ v = 0 => code = 0
    /\ v = max => code = 255

\* C18: the scalings of the packed formats never leave 8 bits.  For every
\* 16-bit word, every value the u8 arithmetic computes (field * 17 for
\* RGBA4444; field * 8, then plus a 32nd of it, and bit * 255 for RGBA5551;
\* field * 8 plus a 32nd, field * 4 plus a 64th for RGB565) is the exact
\* product or sum and lies in 0..255; each scaling never decreases as the
\* field grows, maps 0 to 0 and maps the largest field (15, 31, 63, 1) to 255.
C18_ScalingsStayInByte ==
    (last = "DecodePixel" /\ use_endian(Selected))
    => /\ Selected = "RGBA4444"
          => \A k \in 0..3 :
                LET v == Field(4 * k, 4) IN
                ScalesExactly(color_RGBA4444(Word)[k + 1],
                              Expand4(v), Expand4(v + 1), v, 15)
       /\ Selected = "RGBA5551"
          => /\ \A k \in 0..2 :
                   LET v == Field(5 * k, 5) IN
                   /\ 8 * v \in 0..255
                   /\ ScalesExactly(color_RGBA5551(Word)[k + 1],
                                    Expand5(v), Expand5(v + 1), v, 31)
             /\ LET v == Field(15, 1) IN
                ScalesExactly(color_RGBA5551(Word)[4],
                              Expand1(v), Expand1(v + 1), v, 1)
       /\ Selected = "RGB565"
          => /\ 8 * Field(0, 5) \in 0..255
             /\ 4 * Field(5, 6) \in 0..255
             /\ 8 * Field(11, 5) \in 0..255
             /\ LET v == Field(0, 5) IN
                ScalesExactly(color_RGB565(Word)[1], Expand5(v), Expand5(v + 1), v, 31)
             /\ LET v == Field(5, 6) IN
                ScalesExactly(color_RGB565(Word)[2], Expand6(v), Expand6(v + 1), v, 63)
             /\ LET v == Field(11, 5) IN
                ScalesExactly(color_RGB565(Word)[3], Expand5(v), Expand5(v + 1), v, 31)

\* the largest green field of RGB565: 63 * 4 + 3 = 255
C18_LargestGreen ==
    /\ PixelDecoded("RGB565")
    /\ Order = <<"r", "g", "b">>
    /\ Field(5, 6) = 63
    /\ Field(0, 5) = 0
    /\ Field(11, 5) = 0
    /\ OutIs(0, 255, 0, 255)

====
